---- MODULE Spec2Model ----
\* A model of libnscache (src/src/lib.rs): an LD_PRELOAD layer that caches
\* getaddrinfo() results and defers freeaddrinfo() behind a bounded queue.
\*
\* Threads call getaddrinfo()/freeaddrinfo() concurrently.  Every step of the
\* model is one lock-delimited piece of a handler:
\*   getaddrinfo : Call -> (CACHE lock) -> lookup -> [real call -> (CACHE lock)
\*                 -> insert] -> return
\*   freeaddrinfo: Call -> (CACHE lock) -> defer_delete_ptr -> pop/free -> return
\* The three inner mutexes (PARAMS, REF_COUNTS, DEFER_QUEUE) are only ever
\* taken while CACHE is held, and are released again inside the step.
EXTENDS Integers, Sequences, FiniteSets, TLC

\* ---------------------------------------------------------------- bounds
\* Largest value of the millisecond clock.
MaxTime == 1
\* Total number of getaddrinfo() calls the application makes.
MaxCalls == 3

\* ------------------------------------------------------ program constants
\* lib.rs:33 CACHE_LIFETIME_MS = 1000; one tick of the model's clock is 1000 ms.
CACHE_LIFETIME_MS == 1
\* lib.rs:36 DEFER_CALL_COUNT = 1000, scaled so that the queue overflows.
DEFER_CALL_COUNT == 1
\* Width of the u64 timestamp arithmetic (lib.rs:221), scaled: 2^6.
U64_MODULUS == 64
\* libc values used by GetAddrInfoParams::new when hints is null (lib.rs:92-93).
AF_UNSPEC == 0
AI_V4MAPPED == 8
AI_ADDRCONFIG == 32

Threads == {"t1", "t2"}
\* Addresses the real resolver can hand out (malloc may reuse a freed one).
HandleSeq == <<"h1", "h2", "h3">>
Handles == { HandleSeq[i] : i \in DOMAIN HandleSeq }
\* A pointer the library has never tracked (e.g. freeaddrinfo(NULL)).
ForeignAi == "null"
NULL == "NULL"
NoThread == "none"
NoEntry == [timestamp |-> -1, ai |-> NULL, retval |-> -1]
\* Statuses of the real getaddrinfo(): 0 on success, or a negative EAI_* error
\* (EAI_NONAME, EAI_AGAIN).
RealStatuses == {0, -2, -3}

\* Raw arguments of the calls the application makes.
\* `hints` is a pointer: null, or to an addrinfo of which four fields are read.
NullHints == [is_null |-> TRUE, ai_flags |-> 0, ai_family |-> 0,
              ai_socktype |-> 0, ai_protocol |-> 0]
DefaultHints == [is_null |-> FALSE, ai_flags |-> AI_V4MAPPED + AI_ADDRCONFIG,
                 ai_family |-> AF_UNSPEC, ai_socktype |-> 0, ai_protocol |-> 0]
Requests ==
    { [hostname |-> "a", servname |-> NULL, hints |-> NullHints],
      [hostname |-> "a", servname |-> "", hints |-> DefaultHints],
      [hostname |-> "b", servname |-> NULL, hints |-> NullHints] }

\* ------------------------------------------------------- pure functions
from_raw(chars) == IF chars = NULL THEN "" ELSE chars

GetAddrInfoParams_new(hostname, servname, hints) ==
    IF hints.is_null
    THEN [hostname |-> from_raw(hostname), servname |-> from_raw(servname),
          socktype |-> 0, protocol |-> 0, family |-> AF_UNSPEC,
          flags |-> AI_V4MAPPED + AI_ADDRCONFIG]
    ELSE [hostname |-> from_raw(hostname), servname |-> from_raw(servname),
          socktype |-> hints.ai_socktype, protocol |-> hints.ai_protocol,
          family |-> hints.ai_family, flags |-> hints.ai_flags]

Keys == { GetAddrInfoParams_new(r.hostname, r.servname, r.hints) : r \in Requests }

\* HashMap::remove / HashMap::insert
MapRemove(m, k) == [x \in DOMAIN m \ {k} |-> m[x]]
MapInsert(m, k, v) == [x \in DOMAIN m \cup {k} |-> IF x = k THEN v ELSE m[x]]
EmptyMap == [x \in {} |-> NULL]

\* u64 subtraction `timestamp - value.timestamp` of a build without overflow
\* checks: it wraps.
WrappingSub(a, b) == (a - b) % U64_MODULUS

\* An entry exactly CACHE_LIFETIME_MS old still counts as fresh.
WithinLifetime_Inclusive(ts, value) ==
    WrappingSub(ts, value.timestamp) <= CACHE_LIFETIME_MS

\* lib.rs:228 `timestamp - value.timestamp < CACHE_LIFETIME_MS`
WithinLifetime(ts, value) == WrappingSub(ts, value.timestamp) < CACHE_LIFETIME_MS

\* Only some of the negative statuses count as failures.
IsFailure_Partial(status) == status < -2

\* lib.rs:246 `retval < 0`
IsFailure(status) == status < 0

\* The entry a racing call left for the key stays indexed.
Unindex_Skipped(index, cache, key) == index

\* lib.rs:265-267: PARAMS once the entry another call left for the key is unindexed.
Unindex(index, cache, key) ==
    IF key \in DOMAIN cache THEN MapRemove(index, cache[key].ai) ELSE index

\* A borrow of an already tracked handle is not counted.
inc_ref_count_Lost(ref_counts, ptr) ==
    IF ptr \in DOMAIN ref_counts
    THEN ref_counts
    ELSE MapInsert(ref_counts, ptr, [refs |-> 1, deleted |-> FALSE])

\* The first borrow of a handle is recorded with a count of zero.
inc_ref_count_FromZero(ref_counts, ptr) ==
    IF ptr \in DOMAIN ref_counts
    THEN MapInsert(ref_counts, ptr,
                   [refs |-> ref_counts[ptr].refs + 1, deleted |-> ref_counts[ptr].deleted])
    ELSE MapInsert(ref_counts, ptr, [refs |-> 0, deleted |-> FALSE])

inc_ref_count(ref_counts, ptr) ==
    IF ptr \in DOMAIN ref_counts
    THEN MapInsert(ref_counts, ptr,
                   [refs |-> ref_counts[ptr].refs + 1, deleted |-> ref_counts[ptr].deleted])
    ELSE MapInsert(ref_counts, ptr, [refs |-> 1, deleted |-> FALSE])

\* The release is queued but not counted.
defer_delete_ptr_NoDecrement(ref_counts, queue, ptr) ==
    IF ptr \in DOMAIN ref_counts
    THEN [ref_counts |-> MapInsert(ref_counts, ptr,
                             [refs |-> ref_counts[ptr].refs, deleted |-> TRUE]),
          queue |-> IF ~ref_counts[ptr].deleted THEN Append(queue, ptr) ELSE queue]
    ELSE [ref_counts |-> ref_counts, queue |-> queue]

\* Every release queues the handle, whatever `deleted` says.
defer_delete_ptr_AlwaysPush(ref_counts, queue, ptr) ==
    IF ptr \in DOMAIN ref_counts
    THEN [ref_counts |-> MapInsert(ref_counts, ptr,
                             [refs |-> ref_counts[ptr].refs - 1, deleted |-> TRUE]),
          queue |-> Append(queue, ptr)]
    ELSE [ref_counts |-> ref_counts, queue |-> queue]

\* `deleted` is never set, so every release queues the handle again.
defer_delete_ptr_FlagLost(ref_counts, queue, ptr) ==
    IF ptr \in DOMAIN ref_counts
    THEN [ref_counts |-> MapInsert(ref_counts, ptr,
                             [refs |-> ref_counts[ptr].refs - 1,
                              deleted |-> ref_counts[ptr].deleted]),
          queue |-> IF ~ref_counts[ptr].deleted THEN Append(queue, ptr) ELSE queue]
    ELSE [ref_counts |-> ref_counts, queue |-> queue]

\* An unknown pointer is queued as well.
defer_delete_ptr_PushUnknown(ref_counts, queue, ptr) ==
    IF ptr \in DOMAIN ref_counts
    THEN [ref_counts |-> MapInsert(ref_counts, ptr,
                             [refs |-> ref_counts[ptr].refs - 1, deleted |-> TRUE]),
          queue |-> IF ~ref_counts[ptr].deleted THEN Append(queue, ptr) ELSE queue]
    ELSE [ref_counts |-> ref_counts, queue |-> Append(queue, ptr)]

\* A released handle that is no longer queued is queued again.
defer_delete_ptr_Requeue(ref_counts, queue, ptr) ==
    IF ptr \in DOMAIN ref_counts
    THEN [ref_counts |-> MapInsert(ref_counts, ptr,
                             [refs |-> ref_counts[ptr].refs - 1, deleted |-> TRUE]),
          queue |-> IF \/ ~ref_counts[ptr].deleted
                       \/ \A i \in DOMAIN queue : queue[i] # ptr
                    THEN Append(queue, ptr)
                    ELSE queue]
    ELSE [ref_counts |-> ref_counts, queue |-> queue]

\* Returns the new REF_COUNTS and DEFER_QUEUE.
defer_delete_ptr(ref_counts, queue, ptr) ==
    IF ptr \in DOMAIN ref_counts
    THEN [ref_counts |-> MapInsert(ref_counts, ptr,
                             [refs |-> ref_counts[ptr].refs - 1, deleted |-> TRUE]),
          queue |-> IF ~ref_counts[ptr].deleted THEN Append(queue, ptr) ELSE queue]
    ELSE [ref_counts |-> ref_counts, queue |-> queue]

get_ref_count(ref_counts, ptr) ==
    IF ptr \in DOMAIN ref_counts
    THEN ref_counts[ptr]
    ELSE [refs |-> -1, deleted |-> FALSE]

\* ------------------------------------------------------------------ state
VARIABLES
    CACHE,        \* HashMap<GetAddrInfoParams, Response>
    PARAMS,       \* HashMap<AddrInfoWrapper, GetAddrInfoParams>
    REF_COUNTS,   \* HashMap<AddrInfoWrapper, RefCount>
    DEFER_QUEUE,  \* VecDeque<AddrInfoWrapper>
    cacheLock,    \* the thread holding the CACHE mutex, or NoThread
    now,          \* SystemTime::now() in milliseconds
    aborted,      \* the process died of an arithmetic-overflow panic
    pc,           \* where each thread is
    params,       \* local `params` of getaddrinfo
    timestamp,    \* local `timestamp` of getaddrinfo
    ai,           \* `*res` of getaddrinfo / argument `ai` of freeaddrinfo
    retval,       \* return value of getaddrinfo
    held,         \* the application: per handle, borrows received and not yet released
    live,         \* the allocator: addresses handed out by orig_getaddrinfo, not freed
    ncalls,       \* number of getaddrinfo calls made so far
    gen,          \* history: how many times an address has been handed out
    borrows,      \* history: getaddrinfo calls that returned this allocation
    released,     \* history: freeaddrinfo calls on this allocation that returned
    nfree,        \* history: orig_freeaddrinfo invocations on this allocation
    first,        \* history: the entry cached for the thread's key when its call began
    expired,      \* history: the stale entry this call evicted, with its gen
    wrapped,      \* history: an age computation has wrapped around
    waited        \* history: per queued handle, the freeaddrinfo calls carried out
                  \* since the one that queued it, counted up to DEFER_CALL_COUNT

shared == <<CACHE, PARAMS, REF_COUNTS, DEFER_QUEUE>>
locals == <<pc, params, timestamp, ai, retval>>
history == <<gen, borrows, released, nfree, first, expired, wrapped, waited>>
vars == <<CACHE, PARAMS, REF_COUNTS, DEFER_QUEUE, cacheLock, now, aborted,
          pc, params, timestamp, ai, retval, held, live, ncalls,
          gen, borrows, released, nfree, first, expired, wrapped, waited>>

NoKey == [hostname |-> NULL, servname |-> NULL, socktype |-> 0, protocol |-> 0,
          family |-> 0, flags |-> 0]
NoExpired == [ai |-> NULL, gen |-> 0]

Init ==
    /\ CACHE = EmptyMap
    /\ PARAMS = EmptyMap
    /\ REF_COUNTS = EmptyMap
    /\ DEFER_QUEUE = << >>
    /\ cacheLock = NoThread
    /\ now = 0
    /\ aborted = FALSE
    /\ pc = [t \in Threads |-> "idle"]
    /\ params = [t \in Threads |-> NoKey]
    /\ timestamp = [t \in Threads |-> 0]
    /\ ai = [t \in Threads |-> NULL]
    /\ retval = [t \in Threads |-> 0]
    /\ held = [h \in Handles |-> 0]
    /\ live = {}
    /\ ncalls = 0
    /\ gen = [h \in Handles |-> 0]
    /\ borrows = [h \in Handles |-> 0]
    /\ released = [h \in Handles |-> 0]
    /\ nfree = [h \in Handles |-> 0]
    /\ first = [t \in Threads |-> NoEntry]
    /\ expired = [t \in Threads |-> NoExpired]
    /\ wrapped = FALSE
    /\ waited = [h \in Handles |-> 0]

\* ---------------------------------------------------------------- helpers
Inc(f, x) == [f EXCEPT ![x] = @ + 1]
Response(t) == [timestamp |-> timestamp[t], ai |-> ai[t], retval |-> retval[t]]

\* The stack frame of a call is gone once it has returned; `ai` and `retval`
\* stay, they are what the caller got.
Return(t) ==
    /\ pc' = [pc EXCEPT ![t] = "idle"]
    /\ params' = [params EXCEPT ![t] = NoKey]
    /\ timestamp' = [timestamp EXCEPT ![t] = 0]
    /\ first' = [first EXCEPT ![t] = NoEntry]
    /\ expired' = [expired EXCEPT ![t] = NoExpired]

\* Addresses orig_getaddrinfo may return: any freed one, or a never used one
\* (never used addresses are interchangeable, the least stands for all).
Fresh ==
    LET unused == { i \in DOMAIN HandleSeq : gen[HandleSeq[i]] = 0 } IN
    { h \in Handles \ live : gen[h] > 0 }
        \cup { HandleSeq[i] : i \in { j \in unused : \A k \in unused : j <= k } }

\* ------------------------------------------------------------ getaddrinfo
\* lib.rs:218-223: sample the clock, build the key, then wait for CACHE.
GetaddrinfoCall(t, r) ==
    /\ ~aborted
    /\ pc[t] = "idle"
    /\ ncalls < MaxCalls
    /\ LET key == GetAddrInfoParams_new(r.hostname, r.servname, r.hints) IN
        /\ params' = [params EXCEPT ![t] = key]
        /\ first' = [first EXCEPT ![t] =
                        IF key \in DOMAIN CACHE THEN CACHE[key] ELSE NoEntry]
    /\ timestamp' = [timestamp EXCEPT ![t] = now]
    /\ ai' = [ai EXCEPT ![t] = NULL]
    /\ retval' = [retval EXCEPT ![t] = 0]
    /\ pc' = [pc EXCEPT ![t] = "g_lookup"]
    /\ ncalls' = ncalls + 1
    /\ UNCHANGED <<shared, cacheLock, now, aborted, held, live,
                   gen, borrows, released, nfree, expired, wrapped, waited>>

\* `drop(cache)` is forgotten: the call goes into the real call holding CACHE.
LookupMiss_KeepLock(t) ==
    /\ ~aborted
    /\ pc[t] = "g_lookup"
    /\ cacheLock = NoThread
    /\ params[t] \notin DOMAIN CACHE
    /\ pc' = [pc EXCEPT ![t] = "g_real"]
    /\ cacheLock' = t
    /\ UNCHANGED <<shared, now, aborted, params, timestamp, ai, retval,
                   held, live, ncalls, history>>

\* lib.rs:224-227, 241: under CACHE, no entry for the key; go to the real call.
LookupMiss(t) ==
    /\ ~aborted
    /\ pc[t] = "g_lookup"
    /\ cacheLock = NoThread
    /\ params[t] \notin DOMAIN CACHE
    /\ pc' = [pc EXCEPT ![t] = "g_real"]
    /\ UNCHANGED <<shared, cacheLock, now, aborted, params, timestamp, ai, retval,
                   held, live, ncalls, history>>

\* The hit path does not wait for CACHE (it relies on REF_COUNTS alone).
LookupHit_NoLock(t) ==
    /\ ~aborted
    /\ pc[t] = "g_lookup"
    /\ params[t] \in DOMAIN CACHE
    /\ LET value == CACHE[params[t]] IN
        /\ WithinLifetime(timestamp[t], value)
        /\ REF_COUNTS' = inc_ref_count(REF_COUNTS, value.ai)
        /\ ai' = [ai EXCEPT ![t] = value.ai]
        /\ retval' = [retval EXCEPT ![t] = value.retval]
        /\ held' = Inc(held, value.ai)
        /\ borrows' = Inc(borrows, value.ai)
    /\ Return(t)
    /\ UNCHANGED <<CACHE, PARAMS, DEFER_QUEUE, cacheLock, now, aborted,
                   live, ncalls, gen, released, nfree, wrapped, waited>>

\* lib.rs:224-234: under CACHE, the entry is younger than CACHE_LIFETIME_MS.
LookupHit(t) ==
    /\ ~aborted
    /\ pc[t] = "g_lookup"
    /\ cacheLock = NoThread
    /\ params[t] \in DOMAIN CACHE
    /\ LET value == CACHE[params[t]] IN
        /\ WithinLifetime(timestamp[t], value)
        /\ REF_COUNTS' = inc_ref_count(REF_COUNTS, value.ai)
        /\ ai' = [ai EXCEPT ![t] = value.ai]
        /\ retval' = [retval EXCEPT ![t] = value.retval]
        /\ held' = Inc(held, value.ai)
        /\ borrows' = Inc(borrows, value.ai)
    /\ Return(t)
    /\ UNCHANGED <<CACHE, PARAMS, DEFER_QUEUE, cacheLock, now, aborted,
                   live, ncalls, gen, released, nfree, wrapped, waited>>

\* lib.rs:224-241: under CACHE, the entry is stale: forget it, go to the real call.
LookupExpired(t) ==
    /\ ~aborted
    /\ pc[t] = "g_lookup"
    /\ cacheLock = NoThread
    /\ params[t] \in DOMAIN CACHE
    /\ LET value == CACHE[params[t]] IN
        /\ ~WithinLifetime(timestamp[t], value)
        /\ PARAMS' = MapRemove(PARAMS, value.ai)
        /\ CACHE' = MapRemove(CACHE, params[t])
        /\ expired' = [expired EXCEPT ![t] = [ai |-> value.ai, gen |-> gen[value.ai]]]
        /\ wrapped' = (wrapped \/ timestamp[t] < value.timestamp)
    /\ pc' = [pc EXCEPT ![t] = "g_real"]
    /\ UNCHANGED <<REF_COUNTS, DEFER_QUEUE, cacheLock, now, aborted, params, timestamp,
                   ai, retval, held, live, ncalls, gen, borrows, released, nfree,
                   first, waited>>

\* lib.rs:228 in a build with overflow checks: the entry was created after this
\* call sampled its clock, the subtraction panics and the process dies.
LookupPanic(t) ==
    /\ ~aborted
    /\ pc[t] = "g_lookup"
    /\ cacheLock = NoThread
    /\ params[t] \in DOMAIN CACHE
    /\ timestamp[t] < CACHE[params[t]].timestamp
    /\ aborted' = TRUE
    /\ UNCHANGED <<shared, cacheLock, now, locals, held, live, ncalls, history>>

\* lib.rs:243-248, orig_getaddrinfo fails: return its status, touch nothing.
RealFail(t) ==
    /\ ~aborted
    /\ pc[t] = "g_real"
    /\ \E s \in RealStatuses :
        /\ IsFailure(s)
        /\ retval' = [retval EXCEPT ![t] = s]
    /\ Return(t)
    /\ UNCHANGED <<shared, cacheLock, now, aborted, ai, held, live, ncalls,
                   gen, borrows, released, nfree, wrapped, waited>>

\* lib.rs:243-260, orig_getaddrinfo succeeds with a fresh allocation; the clock
\* is sampled again before waiting for CACHE.
RealOk(t) ==
    /\ ~aborted
    /\ pc[t] = "g_real"
    /\ \E s \in RealStatuses, h \in Fresh :
        /\ ~IsFailure(s)
        /\ retval' = [retval EXCEPT ![t] = s]
        /\ ai' = [ai EXCEPT ![t] = h]
        /\ live' = live \cup {h}
        /\ gen' = Inc(gen, h)
        /\ borrows' = [borrows EXCEPT ![h] = 0]
        /\ released' = [released EXCEPT ![h] = 0]
        /\ nfree' = [nfree EXCEPT ![h] = 0]
    /\ timestamp' = [timestamp EXCEPT ![t] = now]
    /\ pc' = [pc EXCEPT ![t] = "g_insert"]
    /\ UNCHANGED <<shared, cacheLock, now, aborted, params, held, ncalls,
                   first, expired, wrapped, waited>>

\* The entry a racing call left for the key is kept (insert if absent).
Insert_FirstWins(t) ==
    /\ ~aborted
    /\ pc[t] = "g_insert"
    /\ cacheLock = NoThread
    /\ REF_COUNTS' = inc_ref_count(REF_COUNTS, ai[t])
    /\ CACHE' = IF params[t] \in DOMAIN CACHE
                THEN CACHE
                ELSE MapInsert(CACHE, params[t], Response(t))
    /\ PARAMS' = MapInsert(Unindex(PARAMS, CACHE, params[t]), ai[t], params[t])
    /\ held' = Inc(held, ai[t])
    /\ borrows' = Inc(borrows, ai[t])
    /\ Return(t)
    /\ UNCHANGED <<DEFER_QUEUE, cacheLock, now, aborted, ai, retval,
                   live, ncalls, gen, released, nfree, wrapped, waited>>

\* lib.rs:262-273: under CACHE, unindex a racing winner, count the borrow,
\* insert, index.
Insert(t) ==
    /\ ~aborted
    /\ pc[t] = "g_insert"
    /\ cacheLock = NoThread
    /\ REF_COUNTS' = inc_ref_count(REF_COUNTS, ai[t])
    /\ CACHE' = MapInsert(CACHE, params[t], Response(t))
    /\ PARAMS' = MapInsert(Unindex(PARAMS, CACHE, params[t]), ai[t], params[t])
    /\ held' = Inc(held, ai[t])
    /\ borrows' = Inc(borrows, ai[t])
    /\ Return(t)
    /\ UNCHANGED <<DEFER_QUEUE, cacheLock, now, aborted, ai, retval,
                   live, ncalls, gen, released, nfree, wrapped, waited>>

\* ----------------------------------------------------------- freeaddrinfo
\* The application releases a handle, once per getaddrinfo that returned it.
FreeaddrinfoCall(t, h) ==
    /\ ~aborted
    /\ pc[t] = "idle"
    /\ held[h] > 0
    /\ held' = [held EXCEPT ![h] = @ - 1]
    /\ ai' = [ai EXCEPT ![t] = h]
    /\ pc' = [pc EXCEPT ![t] = "f_defer"]
    /\ UNCHANGED <<shared, cacheLock, now, aborted, params, timestamp, retval,
                   live, ncalls, history>>

\* The application releases a pointer the library never handed out.
FreeaddrinfoForeign(t) ==
    /\ ~aborted
    /\ pc[t] = "idle"
    /\ ai' = [ai EXCEPT ![t] = ForeignAi]
    /\ pc' = [pc EXCEPT ![t] = "f_defer"]
    /\ UNCHANGED <<shared, cacheLock, now, aborted, params, timestamp, retval,
                   held, live, ncalls, history>>

\* lib.rs:279-281: take CACHE, then defer_delete_ptr.
Defer(t) ==
    /\ ~aborted
    /\ pc[t] = "f_defer"
    /\ cacheLock = NoThread
    /\ cacheLock' = t
    /\ LET d == defer_delete_ptr(REF_COUNTS, DEFER_QUEUE, ai[t]) IN
        /\ REF_COUNTS' = d.ref_counts
        /\ DEFER_QUEUE' = d.queue
    /\ waited' = [h \in Handles |->
                     IF \E i \in DOMAIN DEFER_QUEUE : DEFER_QUEUE[i] = h
                     THEN IF waited[h] < DEFER_CALL_COUNT THEN waited[h] + 1 ELSE waited[h]
                     ELSE 0]
    /\ pc' = [pc EXCEPT ![t] = "f_pop"]
    /\ UNCHANGED <<CACHE, PARAMS, now, aborted, params, timestamp, ai,
                   retval, held, live, ncalls, gen, borrows, released, nfree,
                   first, expired, wrapped>>

\* The queue is let grow one entry further before anything is dequeued.
OverCapacity_Late(queue) == Len(queue) > DEFER_CALL_COUNT + 1

\* The queue is trimmed as soon as it is full (`>=` for `>`).
OverCapacity_Eager(queue) == Len(queue) >= DEFER_CALL_COUNT

\* lib.rs:285 `queue.len() > DEFER_CALL_COUNT`
OverCapacity(queue) == Len(queue) > DEFER_CALL_COUNT

\* A handle with a single borrower left counts as unborrowed.
StillBorrowed_OffByOne(refs) == refs.refs > 1

\* lib.rs:289 `refs.refs > 0`
StillBorrowed(refs) == refs.refs > 0

ReturnFromFree(t) ==
    /\ released' = IF ai[t] \in Handles THEN Inc(released, ai[t]) ELSE released
    /\ cacheLock' = NoThread
    /\ ai' = [ai EXCEPT ![t] = NULL]
    /\ pc' = [pc EXCEPT ![t] = "idle"]

\* lib.rs:285, 302: the queue is within its capacity, nothing to reclaim.
PopNone(t) ==
    /\ ~aborted
    /\ pc[t] = "f_pop"
    /\ ~OverCapacity(DEFER_QUEUE)
    /\ ReturnFromFree(t)
    /\ UNCHANGED <<shared, now, aborted, params, timestamp, retval,
                   held, live, ncalls, gen, borrows, nfree, first, expired,
                   wrapped, waited>>

\* The oldest entry is still borrowed; it is put back at the end of the queue.
PopBusy_Requeue(t) ==
    /\ ~aborted
    /\ pc[t] = "f_pop"
    /\ OverCapacity(DEFER_QUEUE)
    /\ StillBorrowed(get_ref_count(REF_COUNTS, Head(DEFER_QUEUE)))
    /\ DEFER_QUEUE' = Append(Tail(DEFER_QUEUE), Head(DEFER_QUEUE))
    /\ waited' = [waited EXCEPT ![Head(DEFER_QUEUE)] = 0]
    /\ ReturnFromFree(t)
    /\ UNCHANGED <<CACHE, PARAMS, REF_COUNTS, now, aborted, params, timestamp,
                   retval, held, live, ncalls, gen, borrows, nfree, first, expired, wrapped>>

\* lib.rs:285-291: the oldest entry is still borrowed; it is dropped.
PopBusy(t) ==
    /\ ~aborted
    /\ pc[t] = "f_pop"
    /\ OverCapacity(DEFER_QUEUE)
    /\ StillBorrowed(get_ref_count(REF_COUNTS, Head(DEFER_QUEUE)))
    /\ DEFER_QUEUE' = Tail(DEFER_QUEUE)
    /\ waited' = [waited EXCEPT ![Head(DEFER_QUEUE)] = 0]
    /\ ReturnFromFree(t)
    /\ UNCHANGED <<CACHE, PARAMS, REF_COUNTS, now, aborted, params, timestamp,
                   retval, held, live, ncalls, gen, borrows, nfree, first, expired, wrapped>>

\* The oldest entry is freed and untracked, but its cache entry is left behind
\* (`cache.remove(&p)` forgotten).
PopFree_KeepsCache(t) ==
    /\ ~aborted
    /\ pc[t] = "f_pop"
    /\ OverCapacity(DEFER_QUEUE)
    /\ LET deferred == Head(DEFER_QUEUE) IN
        /\ ~StillBorrowed(get_ref_count(REF_COUNTS, deferred))
        /\ DEFER_QUEUE' = Tail(DEFER_QUEUE)
        /\ REF_COUNTS' = MapRemove(REF_COUNTS, deferred)
        /\ PARAMS' = MapRemove(PARAMS, deferred)
        /\ live' = live \ {deferred}
        /\ nfree' = Inc(nfree, deferred)
        /\ waited' = [waited EXCEPT ![deferred] = 0]
    /\ ReturnFromFree(t)
    /\ UNCHANGED <<CACHE, now, aborted, params, timestamp, retval, held,
                   ncalls, gen, borrows, first, expired, wrapped>>

\* lib.rs:285-301: the oldest entry is unborrowed; forget it and free it.
PopFree(t) ==
    /\ ~aborted
    /\ pc[t] = "f_pop"
    /\ OverCapacity(DEFER_QUEUE)
    /\ LET deferred == Head(DEFER_QUEUE) IN
        /\ ~StillBorrowed(get_ref_count(REF_COUNTS, deferred))
        /\ DEFER_QUEUE' = Tail(DEFER_QUEUE)
        /\ REF_COUNTS' = MapRemove(REF_COUNTS, deferred)
        /\ PARAMS' = MapRemove(PARAMS, deferred)
        /\ CACHE' = IF deferred \in DOMAIN PARAMS
                    THEN MapRemove(CACHE, PARAMS[deferred])
                    ELSE CACHE
        /\ live' = live \ {deferred}
        /\ nfree' = Inc(nfree, deferred)
        /\ waited' = [waited EXCEPT ![deferred] = 0]
    /\ ReturnFromFree(t)
    /\ UNCHANGED <<now, aborted, params, timestamp, retval, held,
                   ncalls, gen, borrows, first, expired, wrapped>>

\* --------------------------------------------------------------- the clock
Tick ==
    /\ ~aborted
    /\ now < MaxTime
    /\ now' = now + 1
    /\ UNCHANGED <<shared, cacheLock, aborted, locals, held, live, ncalls, history>>

Next ==
    \/ \E t \in Threads, r \in Requests : GetaddrinfoCall(t, r)
    \/ \E t \in Threads : LookupMiss(t)
    \/ \E t \in Threads : LookupHit(t)
    \/ \E t \in Threads : LookupExpired(t)
    \/ \E t \in Threads : LookupPanic(t)
    \/ \E t \in Threads : RealFail(t)
    \/ \E t \in Threads : RealOk(t)
    \/ \E t \in Threads : Insert(t)
    \/ \E t \in Threads, h \in Handles : FreeaddrinfoCall(t, h)
    \/ \E t \in Threads : FreeaddrinfoForeign(t)
    \/ \E t \in Threads : Defer(t)
    \/ \E t \in Threads : PopNone(t)
    \/ \E t \in Threads : PopBusy(t)
    \/ \E t \in Threads : PopFree(t)
    \/ Tick

Spec == Init /\ [][Next]_vars

\* A step of thread t inside getaddrinfo or freeaddrinfo, the real calls
\* included.
CallStep(t) ==
    \/ LookupMiss(t) \/ LookupHit(t) \/ LookupExpired(t)
    \/ RealFail(t) \/ RealOk(t) \/ Insert(t)
    \/ Defer(t) \/ PopNone(t) \/ PopBusy(t) \/ PopFree(t)

\* Fair scheduling: the real calls return, and a thread that can take CACHE
\* again and again does take it (std::sync::Mutex promises no fairness; the
\* scheduler is assumed to provide it).
FairSpec == Spec /\ \A t \in Threads : SF_vars(CallStep(t))

TypeOK ==
    /\ DOMAIN CACHE \subseteq Keys
    /\ DOMAIN PARAMS \subseteq Handles
    /\ DOMAIN REF_COUNTS \subseteq Handles
    /\ cacheLock \in Threads \cup {NoThread}
    /\ now \in 0..MaxTime


\* ================================================================ claims
Refs(h) == get_ref_count(REF_COUNTS, h).refs
Queued(h) == \E i \in DOMAIN DEFER_QUEUE : DEFER_QUEUE[i] = h
\* Thread t takes a step out of the program point `at`.
Leaves(t, at) == pc[t] = at /\ pc'[t] # at
\* orig_freeaddrinfo is invoked on h in this step.
RealFree(h) == nfree'[h] > nfree[h]

\* C1. No premature free: orig_freeaddrinfo is never invoked on a handle whose
\* reference count is above zero, that the application still holds, that a
\* thread is on its way to release, or that a getaddrinfo call is about to return.
C1_NoPrematureFree ==
    [][\A h \in Handles :
        RealFree(h) =>
            /\ Refs(h) <= 0
            /\ held[h] = 0
            /\ \A t \in Threads : ~(pc[t] \in {"f_defer", "g_insert"} /\ ai[t] = h)]_vars

\* A handle was dequeued while borrowed, and was not freed.
C1_Witness ==
    \E h \in DOMAIN REF_COUNTS :
        /\ REF_COUNTS[h].deleted /\ REF_COUNTS[h].refs > 0
        /\ ~Queued(h) /\ h \in live /\ nfree[h] = 0
        /\ cacheLock = NoThread

\* The call of thread t began within the lifetime of an entry that an earlier
\* call had inserted for its key and returned.
InWindow(t) ==
    /\ first[t] # NoEntry
    /\ first[t].timestamp <= timestamp[t]
    /\ timestamp[t] < first[t].timestamp + CACHE_LIFETIME_MS

\* The lookup of thread t is answered from the cache with entry e: e's handle and
\* status are returned, its reference count goes up by one and the call returns
\* without having reached the real call.
AnsweredWith(t, e) ==
    /\ pc'[t] = "idle"
    /\ ai'[t] = e.ai
    /\ retval'[t] = e.retval
    /\ held' = Inc(held, e.ai)
    /\ get_ref_count(REF_COUNTS', e.ai).refs = Refs(e.ai) + 1
    /\ live' = live

\* C2 as stated. Cache hit correctness: a getaddrinfo call for a key, begun
\* within the lifetime of the entry an earlier call for that key has returned,
\* returns that entry's handle and status, counts the borrow and makes no real
\* call. (Stated for the runs in which no age computation has wrapped, so that
\* what refutes it is not the wrap-around of lib.rs:228.)
C2_AsStated ==
    [][\A t \in Threads :
        (Leaves(t, "g_lookup") /\ InWindow(t) /\ ~wrapped)
            => AnsweredWith(t, first[t])]_vars

\* C2 as amended: the same, provided the entry the earlier call returned is
\* still the key's cache entry when the later call looks the key up.
C2_CacheHit ==
    [][\A t \in Threads :
        ( /\ Leaves(t, "g_lookup")
          /\ InWindow(t)
          /\ params[t] \in DOMAIN CACHE
          /\ CACHE[params[t]] = first[t] ) => AnsweredWith(t, first[t])]_vars

\* A handle has been returned by two getaddrinfo calls: the second was a hit.
C2_Witness == \E h \in live : borrows[h] >= 2

\* C3. Expiry: a lookup at or after createdAt + CACHE_LIFETIME_MS removes the
\* entry from CACHE and its handle from PARAMS and goes on to the real call; the
\* call then returns what the real call produced, never the allocation it evicted.
C3_Expiry ==
    [][\A t \in Threads :
        /\ ( /\ Leaves(t, "g_lookup")
             /\ params[t] \in DOMAIN CACHE
             /\ timestamp[t] >= CACHE[params[t]].timestamp + CACHE_LIFETIME_MS )
           => /\ params[t] \notin DOMAIN CACHE'
              /\ CACHE[params[t]].ai \notin DOMAIN PARAMS'
              /\ pc'[t] = "g_real"
              /\ expired'[t].ai = CACHE[params[t]].ai
        /\ ( /\ expired[t] # NoExpired
             /\ pc[t] # "idle" /\ pc'[t] = "idle" )
           => /\ pc[t] \in {"g_real", "g_insert"}
              /\ \/ retval'[t] < 0 /\ ai'[t] = NULL
                 \/ [ai |-> ai'[t], gen |-> gen'[ai'[t]]] # expired[t]]_vars

\* A call evicted a stale entry, made the real call and is about to insert.
C3_Witness ==
    \E t \in Threads : pc[t] = "g_insert" /\ expired[t] # NoExpired

\* C4. Never cache failure: when the real call fails the call returns that
\* status at once and CACHE, PARAMS, REF_COUNTS, the queue, the caller's result
\* pointer and the allocator are as they were.
C4_NeverCacheFailure ==
    [][\A t \in Threads :
        (Leaves(t, "g_real") /\ retval'[t] < 0) =>
            /\ pc'[t] = "idle"
            /\ retval'[t] \in RealStatuses
            /\ ai'[t] = ai[t]
            /\ UNCHANGED <<CACHE, PARAMS, REF_COUNTS, DEFER_QUEUE, held, live>>]_vars

\* A call has returned a failure while the cache holds entries.
C4_Witness ==
    \E t \in Threads :
        pc[t] = "idle" /\ retval[t] < 0 /\ DOMAIN CACHE # {}

\* Every getaddrinfo call that returned this allocation has been matched by a
\* freeaddrinfo call that has returned.
AllReleased(h) == borrows[h] > 0 /\ released[h] = borrows[h]

\* C5 as stated. Borrow accounting: once N releases have matched N resolves of
\* a handle, its RefCount is gone and orig_freeaddrinfo has run on it exactly once.
C5_AsStated ==
    \A h \in Handles :
        AllReleased(h) => (h \notin DOMAIN REF_COUNTS /\ nfree[h] = 1)

\* C5 as amended: once N releases have matched N resolves of a handle, its
\* reference count is 0 and orig_freeaddrinfo has run on it at most once; the
\* RefCount is gone exactly if it has run, and it never runs before the Nth release.
C5_BorrowAccounting ==
    \A h \in Handles :
        /\ AllReleased(h) =>
            /\ nfree[h] <= 1
            /\ (nfree[h] = 1) <=> (h \notin DOMAIN REF_COUNTS)
            /\ h \in DOMAIN REF_COUNTS =>
                (REF_COUNTS[h].refs = 0 /\ REF_COUNTS[h].deleted)
        /\ nfree[h] >= 1 => AllReleased(h)

\* Two resolves and two releases of a handle, which has then been freed.
C5_Witness ==
    \E h \in Handles : borrows[h] >= 2 /\ AllReleased(h) /\ nfree[h] = 1

\* C6. No double free: orig_freeaddrinfo runs at most once on an allocation,
\* and only on one the real resolver handed out and that is not freed yet.
C6_NoDoubleFree ==
    /\ \A h \in Handles : nfree[h] <= 1
    /\ \A h \in Handles : nfree[h] = 1 => (h \notin live /\ gen[h] >= 1)

\* One handle has been freed, and a freed address is in use again.
C6_Witness ==
    /\ \E h \in Handles : nfree[h] = 1 /\ h \notin live
    /\ \E g \in live : gen[g] >= 2

\* C7. Reverse-index consistency: while CACHE is not locked, PARAMS maps exactly
\* the handles of the CACHE entries, each to the key of its entry.
C7_ReverseIndex ==
    cacheLock = NoThread =>
        /\ \A h \in DOMAIN PARAMS :
            PARAMS[h] \in DOMAIN CACHE /\ CACHE[PARAMS[h]].ai = h
        /\ \A k \in DOMAIN CACHE :
            CACHE[k].ai \in DOMAIN PARAMS /\ PARAMS[CACHE[k].ai] = k

\* A racing insert has superseded an entry: its handle is tracked, unindexed,
\* and the key is owned by another handle.
C7_Witness ==
    /\ cacheLock = NoThread
    /\ \E h \in DOMAIN REF_COUNTS \ DOMAIN PARAMS, k \in DOMAIN CACHE :
        CACHE[k].ai # h /\ Refs(h) > 0 /\ Refs(CACHE[k].ai) > 0 /\ gen[h] = 1

\* C8. Queue bound: the queue never holds more than DEFER_CALL_COUNT + 1
\* entries, and at most DEFER_CALL_COUNT once no freeaddrinfo call is between
\* its push and its pop.
C8_QueueBound ==
    /\ Len(DEFER_QUEUE) <= DEFER_CALL_COUNT + 1
    /\ (\A t \in Threads : pc[t] # "f_pop") => Len(DEFER_QUEUE) <= DEFER_CALL_COUNT

\* The transient entry: a release has pushed and not popped yet.
C8_Witness == Len(DEFER_QUEUE) = DEFER_CALL_COUNT + 1

NoDuplicates(queue) ==
    \A i, j \in DOMAIN queue : queue[i] = queue[j] => i = j

\* C9. The queue never holds a handle twice: a step that lengthens the queue
\* appends one handle whose `deleted` flag goes from false to true in that step.
C9_QueuedOnce ==
    [][/\ NoDuplicates(DEFER_QUEUE')
       /\ Len(DEFER_QUEUE') > Len(DEFER_QUEUE) =>
            \E h \in DOMAIN REF_COUNTS :
                /\ DEFER_QUEUE' = Append(DEFER_QUEUE, h)
                /\ ~REF_COUNTS[h].deleted
                /\ REF_COUNTS'[h].deleted]_vars

\* A handle has been released twice and sits in the queue.
C9_Witness == \E h \in Handles : released[h] >= 2 /\ Queued(h)

\* C10. Release of an unknown handle is a no-op: the call returns and CACHE,
\* PARAMS, REF_COUNTS, the queue and the allocator are as they were.
C10_UnknownRelease ==
    [][\A t \in Threads :
        ( /\ pc[t] \in {"f_defer", "f_pop"}
          /\ pc'[t] # pc[t]
          /\ ai[t] \notin DOMAIN REF_COUNTS ) =>
            /\ UNCHANGED <<CACHE, PARAMS, REF_COUNTS, DEFER_QUEUE, live, nfree>>
            /\ pc[t] = "f_pop" => (pc'[t] = "idle" /\ cacheLock' = NoThread)]_vars

\* An unknown pointer is being released while the queue is full.
C10_Witness ==
    \E t \in Threads :
        /\ pc[t] = "f_pop" /\ ai[t] = ForeignAi
        /\ Len(DEFER_QUEUE) = DEFER_CALL_COUNT

\* C11. No dangling cache entry: the step that invokes orig_freeaddrinfo on h is
\* taken by the thread holding CACHE, which returns in that step, and leaves h
\* out of REF_COUNTS, PARAMS and every CACHE entry; hence every CACHE entry's
\* handle is a live allocation, and a lookup answered from the cache returns a
\* live allocation on which orig_freeaddrinfo has not been invoked.
C11_NoDanglingEntry ==
    [][/\ \A h \in Handles :
            RealFree(h) =>
                /\ \E t \in Threads :
                    cacheLock = t /\ pc[t] = "f_pop" /\ pc'[t] = "idle"
                /\ h \notin DOMAIN REF_COUNTS'
                /\ h \notin DOMAIN PARAMS'
                /\ \A k \in DOMAIN CACHE' : CACHE'[k].ai # h
       /\ \A k \in DOMAIN CACHE' :
            CACHE'[k].ai \in live' /\ nfree'[CACHE'[k].ai] = 0
       /\ \A t \in Threads :
            (Leaves(t, "g_lookup") /\ pc'[t] = "idle") =>
                (ai'[t] \in live' /\ nfree'[ai'[t]] = 0)]_vars

\* A call is waiting to look up a key whose entry, cached when the call began,
\* held a handle that has been freed since: the entry is gone (no expiry can
\* have removed it, the clock has not moved).
C11_Witness ==
    \E u \in Threads, h \in Handles :
        /\ pc[u] = "g_lookup" /\ first[u] # NoEntry /\ first[u].ai = h
        /\ nfree[h] = 1 /\ h \notin live
        /\ params[u] \notin DOMAIN CACHE
        /\ now = 0

\* C12. Borrow count accuracy: while CACHE is not locked, a handle has a RefCount
\* exactly if a getaddrinfo call has returned it and orig_freeaddrinfo has not
\* been invoked on it, and its `refs` is the number of getaddrinfo calls that
\* returned it minus the number of freeaddrinfo calls on it that have been
\* carried out (a call still waiting for CACHE has not been carried out yet);
\* with every caller releasing once per borrow, `refs` is never negative.
C12_BorrowCount ==
    /\ cacheLock = NoThread =>
        \A h \in Handles :
            /\ h \in DOMAIN REF_COUNTS <=> (borrows[h] > 0 /\ nfree[h] = 0)
            /\ h \in DOMAIN REF_COUNTS =>
                REF_COUNTS[h].refs = borrows[h] - released[h]
    /\ \A h \in DOMAIN REF_COUNTS : REF_COUNTS[h].refs >= 0

\* One handle has been returned twice and released once, another has been
\* reclaimed.
C12_Witness ==
    /\ cacheLock = NoThread
    /\ \E h \in DOMAIN REF_COUNTS :
        borrows[h] = 2 /\ released[h] = 1 /\ REF_COUNTS[h].refs = 1
    /\ \E g \in Handles \ DOMAIN REF_COUNTS : nfree[g] = 1 /\ borrows[g] > 0

\* The handle has been dequeued while borrowed: it is tracked and flagged as
\* released (`deleted`), and the queue does not hold it.
Stranded(h) ==
    h \in DOMAIN REF_COUNTS /\ REF_COUNTS[h].deleted /\ ~Queued(h)

\* C13. Stranding on busy dequeue: a freeaddrinfo call that dequeues a handle
\* whose reference count is above zero drops it from the queue and changes
\* nothing else; from then on the handle stays as it is, tracked, flagged and
\* out of the queue, and orig_freeaddrinfo is never invoked on it, whatever its
\* reference count becomes.
C13_Stranding ==
    [][/\ \A t \in Threads, h \in Handles :
            ( /\ pc[t] = "f_pop" /\ pc'[t] # "f_pop"
              /\ Len(DEFER_QUEUE) > DEFER_CALL_COUNT
              /\ h = Head(DEFER_QUEUE)
              /\ Refs(h) > 0 ) =>
                /\ DEFER_QUEUE' = Tail(DEFER_QUEUE)
                /\ Stranded(h)'
                /\ UNCHANGED <<CACHE, PARAMS, REF_COUNTS, live, nfree>>
       /\ \A h \in Handles :
            Stranded(h) =>
                /\ Stranded(h)'
                /\ DEFER_QUEUE' \in {DEFER_QUEUE, Tail(DEFER_QUEUE)}
                       \/ \E g \in Handles \ {h} : DEFER_QUEUE' = Append(DEFER_QUEUE, g)
                /\ ~RealFree(h)
                /\ h \in live']_vars

\* A stranded handle whose every borrow has been released: its reference count
\* is 0 and nothing will ever free it.
C13_Witness ==
    \E h \in Handles :
        /\ Stranded(h) /\ Refs(h) = 0 /\ AllReleased(h)
        /\ h \in live /\ nfree[h] = 0
        /\ cacheLock = NoThread

\* Thread u, if it is waiting for CACHE or holding it, can take its next step.
CanProceed(u) ==
    /\ pc[u] = "g_lookup" =>
        ENABLED (LookupMiss(u) \/ LookupHit(u) \/ LookupExpired(u))
    /\ pc[u] = "g_insert" => ENABLED Insert(u)
    /\ pc[u] = "f_defer" => ENABLED Defer(u)
    /\ pc[u] = "f_pop" => ENABLED (PopNone(u) \/ PopBusy(u) \/ PopFree(u))

\* No thread inside orig_getaddrinfo holds CACHE, and while a thread is inside
\* it every other thread can go on with its lookup, insert or release (in a
\* running process, and unless a third thread holds CACHE).
NoLockInRealCall ==
    \A t \in Threads :
        pc[t] = "g_real" =>
            /\ cacheLock # t
            /\ \A u \in Threads \ {t} :
                (~aborted /\ cacheLock \notin Threads \ {t, u}) => CanProceed(u)

\* C14. Locking discipline: no thread holds CACHE while it is inside the real
\* resolve call, so that call never keeps another thread's cache hit or release
\* from completing; and orig_freeaddrinfo is only invoked by the thread that
\* holds CACHE.
C14_LockingDiscipline ==
    /\ []NoLockInRealCall
    /\ [][\A h \in Handles :
            RealFree(h) =>
                \E t \in Threads :
                    cacheLock = t /\ pc[t] = "f_pop" /\ pc'[t] = "idle"]_vars

\* One thread is inside the real resolve call while another, holding CACHE, is
\* about to reclaim the oldest queue entry.
C14_Witness ==
    \E t, u \in Threads :
        /\ u # t
        /\ pc[t] = "g_real"
        /\ pc[u] = "f_pop" /\ cacheLock = u
        /\ Len(DEFER_QUEUE) > DEFER_CALL_COUNT
        /\ Refs(Head(DEFER_QUEUE)) = 0

\* C15. Capacity-triggered FIFO deferral: orig_freeaddrinfo is invoked on a
\* handle only once DEFER_CALL_COUNT further freeaddrinfo calls have been carried
\* out since the call that queued it (its first release), and only on the front
\* of the queue; the queue changes only by a first release appending its handle
\* at the back, or by a freeaddrinfo call removing the front entry, once, as it
\* returns, and only when the queue is longer than DEFER_CALL_COUNT.
C15_DeferredFifo ==
    [][/\ \A h \in Handles :
            RealFree(h) =>
                (waited[h] >= DEFER_CALL_COUNT /\ h = Head(DEFER_QUEUE))
       /\ \/ DEFER_QUEUE' = DEFER_QUEUE
          \/ \E t \in Threads, h \in DOMAIN REF_COUNTS :
                /\ pc[t] = "f_defer" /\ pc'[t] = "f_pop" /\ ai[t] = h
                /\ ~REF_COUNTS[h].deleted
                /\ DEFER_QUEUE' = Append(DEFER_QUEUE, h)
          \/ \E t \in Threads :
                /\ pc[t] = "f_pop" /\ pc'[t] = "idle"
                /\ Len(DEFER_QUEUE) > DEFER_CALL_COUNT
                /\ DEFER_QUEUE' = Tail(DEFER_QUEUE)]_vars

\* A handle has been freed by the call that queued the entry now at the front,
\* and no freeaddrinfo call has been carried out since.
C15_Witness ==
    /\ \E h \in Handles : nfree[h] = 1 /\ h \notin live
    /\ Len(DEFER_QUEUE) = DEFER_CALL_COUNT
    /\ waited[Head(DEFER_QUEUE)] = 0
    /\ cacheLock = NoThread

\* C16. Racing insert: a call that comes to insert and finds its key filled by
\* a call that raced it replaces the entry with its own handle, leaves its own
\* handle as the only one indexed for the key, and leaves the earlier handle's
\* RefCount and the queue as they were; and a handle dequeued with no borrow
\* left is freed whether it is indexed or not, so the earlier handle is reclaimed
\* like any other.
C16_RacingInsert ==
    [][/\ \A t \in Threads, earlier \in Handles :
            ( /\ pc[t] = "g_insert" /\ pc'[t] # "g_insert"
              /\ params[t] \in DOMAIN CACHE
              /\ earlier = CACHE[params[t]].ai ) =>
                /\ earlier # ai[t]
                /\ CACHE'[params[t]].ai = ai[t]
                /\ \A h \in DOMAIN PARAMS' :
                    PARAMS'[h] = params[t] <=> h = ai[t]
                /\ earlier \in DOMAIN REF_COUNTS
                /\ REF_COUNTS'[earlier] = REF_COUNTS[earlier]
                /\ get_ref_count(REF_COUNTS', ai[t]).refs = 1
                /\ DEFER_QUEUE' = DEFER_QUEUE
                /\ live' = live
       /\ \A t \in Threads, h \in Handles :
            ( /\ pc[t] = "f_pop" /\ pc'[t] # "f_pop"
              /\ Len(DEFER_QUEUE) > DEFER_CALL_COUNT
              /\ h = Head(DEFER_QUEUE)
              /\ Refs(h) <= 0 ) =>
                (RealFree(h) /\ h \notin live' /\ h \notin DOMAIN REF_COUNTS')]_vars

\* The handle a racing insert has superseded (tracked, not indexed, and the
\* clock has not moved, so no expiry has unindexed it) has been released by its
\* holder and is at the front of the over-full queue of a freeaddrinfo call.
C16_Witness ==
    \E t \in Threads, h \in DOMAIN REF_COUNTS \ DOMAIN PARAMS :
        /\ now = 0
        /\ pc[t] = "f_pop"
        /\ Len(DEFER_QUEUE) > DEFER_CALL_COUNT
        /\ h = Head(DEFER_QUEUE)
        /\ Refs(h) = 0
        /\ \E k \in DOMAIN CACHE : CACHE[k].ai # h /\ borrows[CACHE[k].ai] = 1

\* Thread u takes a step that reads or writes CACHE, PARAMS, REF_COUNTS or
\* DEFER_QUEUE: a lookup, an insert, a defer or a pop.
Touches(u) ==
    pc[u] \in {"g_lookup", "g_insert", "f_defer", "f_pop"} /\ pc'[u] # pc[u]

\* The invocation of thread t has made a mutation and has one more to make: a
\* getaddrinfo call that evicted a stale entry and is about to insert, or a
\* freeaddrinfo call between defer_delete_ptr and its pop.
MidInvocation(t) ==
    \/ pc[t] = "g_insert" /\ expired[t] # NoExpired
    \/ pc[t] = "f_pop"

\* C17 as stated. Per-invocation atomicity: between the first and the last
\* mutation of one getaddrinfo or freeaddrinfo invocation, no other invocation
\* reads or modifies the shared state. (Stated for the runs in which no age
\* computation has wrapped.)
C17_AsStated ==
    [][\A t \in Threads, u \in Threads :
        (u # t /\ MidInvocation(t) /\ ~wrapped) => ~Touches(u)]_vars

\* C17 as amended: atomicity per critical section. A freeaddrinfo invocation
\* holds CACHE from its first mutation to its return; while a thread holds
\* CACHE no other thread reads or modifies the shared state, and the shared
\* state changes only in a step of a thread that holds CACHE or takes it in
\* that step. (A getaddrinfo invocation has two such sections, the lookup and
\* the insert, with the real call between them.)
C17_Atomicity ==
    /\ [](\A t \in Threads : pc[t] = "f_pop" => cacheLock = t)
    /\ [][/\ \A t \in Threads, u \in Threads :
                (u # t /\ cacheLock = t) => ~Touches(u)
          /\ shared' # shared =>
                \E t \in Threads :
                    Touches(t) /\ cacheLock \in {NoThread, t}]_vars

\* A freeaddrinfo call is inside its critical section while a getaddrinfo call
\* that has evicted a stale entry waits, between its two critical sections, to
\* insert.
C17_Witness ==
    \E t \in Threads, u \in Threads :
        /\ u # t
        /\ cacheLock = t /\ pc[t] = "f_pop"
        /\ pc[u] = "g_insert" /\ expired[u] # NoExpired

\* Thread t is inside a call and no thread inside a call can take a step.
Stuck(t) ==
    /\ pc[t] # "idle"
    /\ \A u \in Threads : pc[u] # "idle" => ~ENABLED CallStep(u)

\* C18. Deadlock freedom: a getaddrinfo or freeaddrinfo invocation is never
\* stuck: as long as a thread is inside a call, some thread inside a call can
\* take a step (so that, the number of steps of a call being bounded, under fair
\* scheduling every invocation returns).
C18_NeverStuck == \A t \in Threads : ~Stuck(t)

\* As long as the process has not died of the overflow panic of lib.rs:228, no
\* call is stuck, and under fair scheduling every call returns.
NeverStuckWhileRunning == \A t \in Threads : ~aborted => ~Stuck(t)
ReturnsWhileRunning ==
    \A t \in Threads : (pc[t] # "idle") ~> (pc[t] = "idle" \/ aborted)

\* C19. Age computation never underflows: whenever a lookup finds an entry for
\* its key, the timestamp the call sampled on entry is at or after the entry's
\* creation time, so `timestamp - value.timestamp` does not wrap (or panic), and
\* the entry is evicted only if it is at least CACHE_LIFETIME_MS old.
C19_NoUnderflow ==
    [][\A t \in Threads :
        ( /\ pc[t] = "g_lookup"
          /\ pc'[t] # pc[t] \/ aborted' # aborted
          /\ params[t] \in DOMAIN CACHE ) =>
            /\ timestamp[t] >= CACHE[params[t]].timestamp
            /\ ~aborted'
            /\ params[t] \notin DOMAIN CACHE' =>
                timestamp[t] >= CACHE[params[t]].timestamp + CACHE_LIFETIME_MS]_vars

\* The freeaddrinfo call of thread t has queued its handle: it is past
\* defer_delete_ptr, its handle is in the queue and no freeaddrinfo call has
\* been carried out since the handle was queued.
Pushed(t) ==
    /\ pc[t] = "f_pop"
    /\ ai[t] \in Handles
    /\ Queued(ai[t])
    /\ waited[ai[t]] = 0

\* C20. Only a first release can trigger reclamation: a freeaddrinfo call on an
\* unknown pointer, or on a handle whose `deleted` flag is already set, leaves
\* the queue as it is and within its capacity, and returns without dequeuing or
\* freeing anything; a call that dequeues an entry or invokes orig_freeaddrinfo
\* has itself queued its handle.
C20_OnlyFirstRelease ==
    [][\A t \in Threads :
        /\ ( /\ pc[t] = "f_defer" /\ pc'[t] # "f_defer"
             /\ \/ ai[t] \notin DOMAIN REF_COUNTS
                \/ REF_COUNTS[ai[t]].deleted ) =>
                /\ DEFER_QUEUE' = DEFER_QUEUE
                /\ Len(DEFER_QUEUE') <= DEFER_CALL_COUNT
                /\ ~Pushed(t)'
        /\ ( /\ pc[t] = "f_pop" /\ pc'[t] # "f_pop"
             /\ ~Pushed(t) ) =>
                /\ DEFER_QUEUE' = DEFER_QUEUE
                /\ nfree' = nfree
                /\ UNCHANGED <<CACHE, PARAMS, REF_COUNTS, live>>
        /\ ( /\ pc[t] = "f_pop" /\ pc'[t] # "f_pop"
             /\ DEFER_QUEUE' # DEFER_QUEUE \/ nfree' # nfree ) =>
                /\ Pushed(t)
                /\ REF_COUNTS[ai[t]].deleted
                /\ DEFER_QUEUE[Len(DEFER_QUEUE)] = ai[t]]_vars

\* A second release of a handle finds the queue full at its capacity, with
\* the oldest entry unborrowed, and the call is about to return.
C20_Witness ==
    \E t \in Threads :
        /\ pc[t] = "f_pop" /\ ai[t] \in DOMAIN REF_COUNTS
        /\ ~Pushed(t)
        /\ released[ai[t]] >= 1
        /\ Len(DEFER_QUEUE) = DEFER_CALL_COUNT
        /\ Refs(Head(DEFER_QUEUE)) = 0

====
